---- MODULE Spec2Model ----
(***************************************************************************)
(* A model of bpf-oci (crate simoci): the credential store of src/auth.rs, *)
(* the login flow, and the push / pull transfer of src/wasm.rs and         *)
(* src/lib.rs.                                                             *)
(*                                                                         *)
(* Strings are sequences of bytes (naturals).  The credential file is a    *)
(* sequence of JSON tokens.  The registry is an external party whose       *)
(* answers are chosen nondeterministically.                                *)
(***************************************************************************)
EXTENDS Integers, Sequences, FiniteSets, TLC

VARIABLES
    dirExists,   \* the parent directory of the credential file exists
    fileExists,  \* the credential file exists
    fileData,    \* its content, a sequence of tokens (<<>> when absent)
    store,       \* the AuthInfo value held by the caller of the store API
    prevStore,   \* history: store before the last store operation
    op,          \* history: the last store operation, its arguments, its result
    pc,          \* per login flow: where it stands in login / login_registry
    lg,          \* per login flow: its arguments, locals, probe outcome, result
    rs,          \* the last URL credential resolution: its URL, result, effects
    push,        \* the push call: its arguments, position, module bytes, result
    pull,        \* the pull call: its arguments, position, response, result
    net,         \* the registry-facing steps the current push / pull has made
    outFile      \* the file PullArgs.write_file names

vars ==
    <<dirExists, fileExists, fileData, store, prevStore, op, pc, lg, rs,
      push, pull, net, outFile>>

xferVars == <<push, pull, net, outFile>>

storeVars == <<store, prevStore, op>>

fsVars == <<dirExists, fileExists, fileData>>

----------------------------------------------------------------------------
(* Bounds and input sets *)

\* hosts are numbered 1..NumHosts
NumHosts == 2

Hosts == 1..NumHosts

\* the byte b':' that separates user and password
Colon == 58

\* the (user, password) pairs the callers pass: ("a",""), ("","b"),
\* ("a",":b") whose password holds the separator, ("a:b","b") whose user does
Creds ==
    {<<<<97>>, <<>>>>, <<<<>>, <<98>>>>,
     <<<<97>>, <<Colon, 98>>>>, <<<<97, Colon, 98>>, <<98>>>>}

----------------------------------------------------------------------------
(* base64, the STANDARD engine: alphabet positions 0..63, Pad is '=' *)

Pad == 64

RECURSIVE B64Encode(_)
B64Encode(b) ==
    IF Len(b) = 0 THEN <<>>
    ELSE IF Len(b) = 1 THEN
        <<b[1] \div 4, (b[1] % 4) * 16, Pad, Pad>>
    ELSE IF Len(b) = 2 THEN
        <<b[1] \div 4, (b[1] % 4) * 16 + (b[2] \div 16), (b[2] % 16) * 4, Pad>>
    ELSE
        <<b[1] \div 4, (b[1] % 4) * 16 + (b[2] \div 16),
          (b[2] % 16) * 4 + (b[3] \div 64), b[3] % 64>>
        \o B64Encode(SubSeq(b, 4, Len(b)))

\* one group of four symbols; only the last group may carry padding, and the
\* bits the padding leaves unused must be zero
B64Group(g, last) ==
    IF \A i \in 1..4 : g[i] \in 0..63 THEN
        [ok |-> TRUE,
         bytes |-> <<g[1] * 4 + (g[2] \div 16),
                     (g[2] % 16) * 16 + (g[3] \div 4),
                     (g[3] % 4) * 64 + g[4]>>]
    ELSE IF last /\ g[1] \in 0..63 /\ g[2] \in 0..63 /\ g[3] \in 0..63
                 /\ g[4] = Pad /\ g[3] % 4 = 0 THEN
        [ok |-> TRUE,
         bytes |-> <<g[1] * 4 + (g[2] \div 16), (g[2] % 16) * 16 + (g[3] \div 4)>>]
    ELSE IF last /\ g[1] \in 0..63 /\ g[2] \in 0..63
                 /\ g[3] = Pad /\ g[4] = Pad /\ g[2] % 16 = 0 THEN
        [ok |-> TRUE, bytes |-> <<g[1] * 4 + (g[2] \div 16)>>]
    ELSE [ok |-> FALSE, bytes |-> <<>>]

RECURSIVE B64Decode(_)
B64Decode(s) ==
    IF Len(s) = 0 THEN [ok |-> TRUE, bytes |-> <<>>]
    ELSE IF Len(s) < 4 THEN [ok |-> FALSE, bytes |-> <<>>]
    ELSE
        LET g == B64Group(SubSeq(s, 1, 4), Len(s) = 4)
            r == B64Decode(SubSeq(s, 5, Len(s)))
        IN  IF g.ok /\ r.ok THEN [ok |-> TRUE, bytes |-> g.bytes \o r.bytes]
            ELSE [ok |-> FALSE, bytes |-> <<>>]

\* String::from_utf8_lossy on the bytes of the model: an ASCII byte is kept,
\* a byte that cannot start a UTF-8 sequence becomes U+FFFD (EF BF BD)
RECURSIVE FromUtf8Lossy(_)
FromUtf8Lossy(b) ==
    IF Len(b) = 0 THEN <<>>
    ELSE (IF b[1] < 128 THEN <<b[1]>> ELSE <<239, 191, 189>>)
         \o FromUtf8Lossy(SubSeq(b, 2, Len(b)))

----------------------------------------------------------------------------
(* LoginInfo *)

\* results: ok, an error kind, and the value (<<>> on error)
Ok(v) == [ok |-> TRUE, err |-> "", val |-> v]
Err(e) == [ok |-> FALSE, err |-> e, val |-> <<>>]

\* iter().position(pred): the first index whose element satisfies the test,
\* 0 for None
PositionOfByte(s, x) ==
    IF \E i \in 1..Len(s) : s[i] = x
    THEN CHOOSE i \in 1..Len(s) : s[i] = x /\ \A j \in 1..(i - 1) : s[j] # x
    ELSE 0

PositionOfUrl(recs, url) ==
    IF \E i \in 1..Len(recs) : recs[i].url = url
    THEN CHOOSE i \in 1..Len(recs) :
            recs[i].url = url /\ \A j \in 1..(i - 1) : recs[j].url # url
    ELSE 0

LoginInfoNew(url, user, pwd) ==
    [url |-> url, auth |-> B64Encode(user \o <<Colon>> \o pwd)]

\* the last index whose element is x, 0 for None
LastPositionOfByte(s, x) ==
    IF \E i \in 1..Len(s) : s[i] = x
    THEN CHOOSE i \in 1..Len(s) : s[i] = x /\ \A j \in (i + 1)..Len(s) : s[j] # x
    ELSE 0

\* get_user_pwd splitting at the last separator instead of the first
get_user_pwd_split_last(li) ==
    LET dec == B64Decode(li.auth)
        idx == LastPositionOfByte(dec.bytes, Colon)
    IN  IF ~dec.ok THEN Err("Corrupt")
        ELSE IF idx = 0 THEN Err("Corrupt")
        ELSE Ok(<<FromUtf8Lossy(SubSeq(dec.bytes, 1, idx - 1)),
                  FromUtf8Lossy(SubSeq(dec.bytes, idx + 1, Len(dec.bytes)))>>)

get_user_pwd(li) ==
    LET dec == B64Decode(li.auth)
        idx == PositionOfByte(dec.bytes, Colon)
    IN  IF ~dec.ok THEN Err("Corrupt")
        ELSE IF idx = 0 THEN Err("Corrupt")
        ELSE Ok(<<FromUtf8Lossy(SubSeq(dec.bytes, 1, idx - 1)),
                  FromUtf8Lossy(SubSeq(dec.bytes, idx + 1, Len(dec.bytes)))>>)

----------------------------------------------------------------------------
(* AuthInfo: a Vec<LoginInfo> *)

\* get_auth_info_by_url that reports a record it cannot decode as a missing one
get_auth_info_by_url_conflate(recs, url) ==
    LET idx == PositionOfUrl(recs, url)
    IN  IF idx = 0 \/ ~get_user_pwd(recs[idx]).ok THEN Err("NotFound")
        ELSE get_user_pwd(recs[idx])

get_auth_info_by_url(recs, url) ==
    LET idx == PositionOfUrl(recs, url)
    IN  IF idx = 0 THEN Err("NotFound") ELSE get_user_pwd(recs[idx])

\* set_login_info that drops the old record and pushes the new one at the end
set_login_info_move_to_end(recs, li) ==
    LET idx == PositionOfUrl(recs, li.url)
    IN  IF idx # 0
        THEN Append(SubSeq(recs, 1, idx - 1) \o SubSeq(recs, idx + 1, Len(recs)), li)
        ELSE Append(recs, li)

\* set_login_info that keeps nothing but the new record
set_login_info_forget(recs, li) == <<li>>

set_login_info(recs, li) ==
    LET idx == PositionOfUrl(recs, li.url)
    IN  IF idx # 0 THEN [recs EXCEPT ![idx] = li] ELSE Append(recs, li)

\* Vec::remove(idx): the later elements shift left
remove_login_info(recs, url) ==
    LET idx == PositionOfUrl(recs, url)
    IN  IF idx = 0 THEN Err("NotFound")
        ELSE Ok(SubSeq(recs, 1, idx - 1) \o SubSeq(recs, idx + 1, Len(recs)))

----------------------------------------------------------------------------
(* The credential file: JSON as a sequence of tokens *)

Tok(t) == [t |-> t, url |-> 0, auth |-> <<>>]

LB == Tok("[")
RB == Tok("]")
COMMA == Tok(",")
WS == Tok(" ")
JUNK == Tok("x")

\* the object {"url": .., "auth": ..} of one LoginInfo
RecTok(li) == [t |-> "rec", url |-> li.url, auth |-> li.auth]

RecOf(tok) == [url |-> tok.url, auth |-> tok.auth]

RECURSIVE JoinRecs(_)
JoinRecs(recs) ==
    IF Len(recs) = 0 THEN <<>>
    ELSE IF Len(recs) = 1 THEN <<RecTok(recs[1])>>
    ELSE <<RecTok(recs[1]), COMMA>> \o JoinRecs(Tail(recs))

\* serde_json::to_writer of an AuthInfo: a compact array of objects
to_writer(recs) == <<LB>> \o JoinRecs(recs) \o <<RB>>

NotWs(tok) == tok.t # " "

\* the elements of an array after '[' or ',': a record, then ',' or the ']'
\* that must end the input
RECURSIVE ParseElems(_, _)
ParseElems(toks, acc) ==
    IF Len(toks) < 2 \/ toks[1].t # "rec" THEN Err("Deserialize")
    ELSE IF toks[2].t = "]" THEN
        IF Len(toks) = 2 THEN Ok(Append(acc, RecOf(toks[1]))) ELSE Err("Deserialize")
    ELSE IF toks[2].t = "," THEN
        ParseElems(SubSeq(toks, 3, Len(toks)), Append(acc, RecOf(toks[1])))
    ELSE Err("Deserialize")

\* serde_json::from_slice::<AuthInfo>: whitespace is skipped, the value must be
\* an array of LoginInfo, nothing but whitespace may follow it
from_slice(data) ==
    LET toks == SelectSeq(data, NotWs)
    IN  IF Len(toks) < 2 \/ toks[1].t # "[" THEN Err("Deserialize")
        ELSE IF toks[2].t = "]" THEN
            IF Len(toks) = 2 THEN Ok(<<>>) ELSE Err("Deserialize")
        ELSE ParseElems(Tail(toks), <<>>)

read_from_file_no_empty_check(data) == from_slice(data)

read_from_file(data) ==
    IF data = <<>> THEN Ok(<<>>) ELSE from_slice(data)

\* File::set_len(n) for n within the file
SetLen(data, n) == SubSeq(data, 1, n)

\* a write of bytes at offset pos of the file
WriteAt(data, pos, bytes) ==
    SubSeq(data, 1, pos) \o bytes \o SubSeq(data, pos + Len(bytes) + 1, Len(data))

\* write_to_file without file.set_len(0)
write_to_file_no_truncate(recs, data) == WriteAt(data, 0, to_writer(recs))

\* the handle is freshly opened, so its cursor is at offset 0
write_to_file(recs, data) == WriteAt(SetLen(data, 0), 0, to_writer(recs))

\* get_auth_save_file: create_dir_all(parent), then open with create(true);
\* the content of an existing file is left as it is
get_auth_save_file ==
    /\ dirExists' = TRUE
    /\ fileExists' = TRUE

----------------------------------------------------------------------------
(* The store API, called on one AuthInfo value *)

NoOp == [name |-> "none", host |-> 0, user |-> <<>>, pwd |-> <<>>,
         existed |-> FALSE, preData |-> <<>>, res |-> Ok(<<>>)]

\* records as they may stand in a file that was not written by this program
R(h, c) == LoginInfoNew(h, c[1], c[2])

\* "=" alone: not base64
BadB64Rec(h) == [url |-> h, auth |-> <<Pad>>]

\* base64 of "a": no separator
NoColonRec(h) == [url |-> h, auth |-> B64Encode(<<97>>)]

\* base64 of FF ':' 'b': a user that is not UTF-8
BadUtf8Rec(h) == [url |-> h, auth |-> B64Encode(<<255, Colon, 98>>)]

CredA == <<<<97>>, <<98>>>>

CredB == <<<<97>>, <<Colon, 98>>>>

\* contents of the credential file before the program runs
InitFileData ==
    {<<>>,
     <<WS>>,
     <<JUNK>>,
     to_writer(<<>>),
     to_writer(<<R(1, CredA)>>),
     <<WS, LB, WS, RecTok(R(2, CredB)), WS, COMMA, RecTok(R(1, CredA)), RB, WS>>,
     to_writer(<<R(1, CredA), R(1, CredB)>>),
     to_writer(<<BadB64Rec(1), NoColonRec(2)>>),
     to_writer(<<BadUtf8Rec(1)>>),
     <<LB, RecTok(R(1, CredA))>>,
     <<LB, RecTok(R(1, CredA)), COMMA, RB>>,
     <<RecTok(R(1, CredA))>>,
     <<LB, RB, RB>>}

InitFs ==
    \/ /\ dirExists \in BOOLEAN
       /\ fileExists = FALSE
       /\ fileData = <<>>
    \/ /\ dirExists = TRUE
       /\ fileExists = TRUE
       /\ fileData \in InitFileData

StoreIdle ==
    /\ store = <<>>
    /\ prevStore = <<>>
    /\ op = NoOp

\* AuthInfo::get(path)
Get ==
    LET r == read_from_file(fileData)
    IN  /\ get_auth_save_file
        /\ UNCHANGED <<fileData, pc, lg, rs, xferVars>>
        /\ prevStore' = store
        /\ store' = IF r.ok THEN r.val ELSE store
        /\ op' = [NoOp EXCEPT !.name = "get", !.existed = fileExists, !.res = r]

\* LoginInfo::new, then AuthInfo::set_login_info
SetLogin(h, c) ==
    /\ prevStore' = store
    /\ store' = set_login_info(store, LoginInfoNew(h, c[1], c[2]))
    /\ op' = [NoOp EXCEPT !.name = "set", !.host = h, !.user = c[1], !.pwd = c[2]]
    /\ UNCHANGED <<dirExists, fileExists, fileData, pc, lg, rs, xferVars>>

\* AuthInfo::remove_login_info
RemoveLogin(h) ==
    LET r == remove_login_info(store, h)
    IN  /\ prevStore' = store
        /\ store' = IF r.ok THEN r.val ELSE store
        /\ op' = [NoOp EXCEPT !.name = "remove", !.host = h,
                              !.res = IF r.ok THEN Ok(<<>>) ELSE r]
        /\ UNCHANGED <<dirExists, fileExists, fileData, pc, lg, rs, xferVars>>

\* AuthInfo::get_auth_info_by_url
Resolve(h) ==
    /\ prevStore' = store
    /\ store' = store
    /\ op' = [NoOp EXCEPT !.name = "resolve", !.host = h,
                          !.res = get_auth_info_by_url(store, h)]
    /\ UNCHANGED <<dirExists, fileExists, fileData, pc, lg, rs, xferVars>>

\* get_auth_save_file(path), then AuthInfo::write_to_file on the handle
Save ==
    /\ get_auth_save_file
    /\ fileData' = write_to_file(store, fileData)
    /\ prevStore' = store
    /\ store' = store
    /\ op' = [NoOp EXCEPT !.name = "save", !.existed = fileExists,
                          !.preData = fileData]
    /\ UNCHANGED <<pc, lg, rs, xferVars>>

----------------------------------------------------------------------------
(* URLs, as url::Url presents them after Url::parse *)

None == [some |-> FALSE, v |-> <<>>]

Some(v) == [some |-> TRUE, v |-> v]

\* the path of an image URL: a repository name, a tag ("" for none), and
\* whether a digest follows
Path(name, tag, digest) == [name |-> name, tag |-> tag, digest |-> digest]

NoPath == Path("", "", FALSE)

\* host 0 stands for a URL without host, port 0 for a URL without port
Url(scheme, user, password, host, port, path) ==
    [valid |-> TRUE, scheme |-> scheme, user |-> user, password |-> password,
     host |-> host, port |-> port, path |-> path]

\* a string Url::parse rejects
BadUrl == [Url("", <<>>, None, 0, 0, NoPath) EXCEPT !.valid = FALSE]

\* "mailto:x": parses, has no host
NoHostUrl == Url("mailto", <<>>, None, 0, 0, NoPath)

PlainUrl(scheme, h) == Url(scheme, <<>>, None, h, 0, NoPath)

----------------------------------------------------------------------------
(* get_client, default_schema_port (src/lib.rs) *)

get_client(url) ==
    IF url.scheme = "http" THEN Ok("Http")
    ELSE IF url.scheme = "https" THEN Ok("Https")
    ELSE Err("UnsupportedScheme")

default_schema_port(schema) ==
    IF schema = "http" THEN Ok(80)
    ELSE IF schema = "https" THEN Ok(443)
    ELSE Err("UnsupportedScheme")

----------------------------------------------------------------------------
(* The login flow: login, login_registry, v2_login *)

\* the login flows that may run
Procs == {1, 2}

NoLogin == [url |-> 0, auth |-> <<>>]

LgIdle ==
    [url |-> BadUrl, user |-> <<>>, token |-> <<>>, auth_info |-> <<>>,
     login_info |-> NoLogin, probe |-> "none", sent |-> <<>>,
     snapExists |-> FALSE, snapDir |-> FALSE, snapData |-> <<>>,
     overlap |-> FALSE, res |-> Ok(<<>>)]

\* the flow is between its call and its return
InFlight(q) == pc[q] \notin {"idle", "done"}

LoginIdle ==
    /\ pc = [p \in Procs |-> "idle"]
    /\ lg = [p \in Procs |-> LgIdle]

\* the URLs passed to login
LoginUrls ==
    {BadUrl, NoHostUrl, PlainUrl("ftp", 1)}
    \cup {PlainUrl("http", h) : h \in Hosts}
    \cup {PlainUrl("https", h) : h \in Hosts}

\* login: Url::parse; login_registry: url.host_str().  Nothing is touched when
\* either fails.  A call made while another flow is in flight marks both as
\* overlapping.
LoginStart(p, u, c) ==
    /\ pc[p] = "idle"
    /\ LET l == [LgIdle EXCEPT !.url = u, !.user = c[1], !.token = c[2],
                               !.snapExists = fileExists, !.snapDir = dirExists,
                               !.snapData = fileData,
                               !.overlap = \E q \in Procs \ {p} : InFlight(q)]
           others == [q \in Procs |->
                         IF InFlight(q) THEN [lg[q] EXCEPT !.overlap = TRUE] ELSE lg[q]]
       IN  IF ~u.valid \/ u.host = 0
           THEN /\ pc' = [pc EXCEPT ![p] = "done"]
                /\ lg' = [others EXCEPT ![p] = [l EXCEPT !.res = Err("InvalidUrl")]]
           ELSE /\ pc' = [pc EXCEPT ![p] = "load"]
                /\ lg' = [others EXCEPT ![p] = l]
    /\ UNCHANGED <<fsVars, storeVars, rs, xferVars>>

\* AuthInfo::get(path)?, then LoginInfo::new(host, username, token)
LoginLoad(p) ==
    /\ pc[p] = "load"
    /\ get_auth_save_file
    /\ UNCHANGED fileData
    /\ LET r == read_from_file(fileData)
       IN  IF ~r.ok
           THEN /\ pc' = [pc EXCEPT ![p] = "done"]
                /\ lg' = [lg EXCEPT ![p].res = r]
           ELSE /\ pc' = [pc EXCEPT ![p] = "probe"]
                /\ lg' = [lg EXCEPT ![p].auth_info = r.val,
                                    ![p].login_info =
                                        LoginInfoNew(lg[p].url.host, lg[p].user, lg[p].token)]
    /\ UNCHANGED <<storeVars, rs, xferVars>>

\* v2_login with a `?` that lets a failed probe through
LoginProbe_ignore_failure(p) ==
    /\ pc[p] = "probe"
    /\ \E accepted \in BOOLEAN :
        /\ pc' = [pc EXCEPT ![p] = "truncate"]
        /\ lg' = [lg EXCEPT ![p].probe = IF accepted THEN "ok" ELSE "rejected"]
    /\ UNCHANGED <<fsVars, storeVars, rs, xferVars>>

\* v2_login(&url, &login_info)?: the credentials are read back out of the
\* record, the client is built, and the registry answers the push-intent
\* authentication for the root reference
LoginProbe(p) ==
    /\ pc[p] = "probe"
    /\ LET up == get_user_pwd(lg[p].login_info)
           cl == get_client(lg[p].url)
       IN  IF ~up.ok
           THEN /\ pc' = [pc EXCEPT ![p] = "done"]
                /\ lg' = [lg EXCEPT ![p].res = up]
           ELSE IF ~cl.ok
           THEN /\ pc' = [pc EXCEPT ![p] = "done"]
                /\ lg' = [lg EXCEPT ![p].res = cl]
           ELSE \E accepted \in BOOLEAN :
                IF accepted
                THEN /\ pc' = [pc EXCEPT ![p] = "truncate"]
                     /\ lg' = [lg EXCEPT ![p].probe = "ok", ![p].sent = up.val]
                ELSE /\ pc' = [pc EXCEPT ![p] = "done"]
                     /\ lg' = [lg EXCEPT ![p].probe = "rejected", ![p].sent = up.val,
                                         ![p].res = Err("Auth")]
    /\ UNCHANGED <<fsVars, storeVars, rs, xferVars>>

\* auth_info.set_login_info(login_info); get_auth_save_file(path)?; and the
\* first half of write_to_file: file.set_len(0)
LoginTruncate(p) ==
    /\ pc[p] = "truncate"
    /\ get_auth_save_file
    /\ fileData' = SetLen(fileData, 0)
    /\ pc' = [pc EXCEPT ![p] = "write"]
    /\ lg' = [lg EXCEPT ![p].auth_info = set_login_info(lg[p].auth_info, lg[p].login_info)]
    /\ UNCHANGED <<storeVars, rs, xferVars>>

\* the second half of write_to_file: serde_json::to_writer(file, self), the
\* handle's cursor still at offset 0; then "Login success"
LoginWrite(p) ==
    /\ pc[p] = "write"
    /\ fileData' = WriteAt(fileData, 0, to_writer(lg[p].auth_info))
    /\ pc' = [pc EXCEPT ![p] = "done"]
    /\ lg' = [lg EXCEPT ![p].res = Ok(<<>>)]
    /\ UNCHANGED <<dirExists, fileExists, storeVars, rs, xferVars>>

\* the call returns; the flow may be started again
LoginReturn(p) ==
    /\ pc[p] = "done"
    /\ pc' = [pc EXCEPT ![p] = "idle"]
    /\ lg' = [lg EXCEPT ![p] = LgIdle]
    /\ UNCHANGED <<fsVars, storeVars, rs, xferVars>>

----------------------------------------------------------------------------
(* URL credential resolution: get_auth_info_by_url_with_path and the variant
   without a store *)

RsIdle ==
    [name |-> "none", url |-> BadUrl, res |-> Ok(<<>>), consulted |-> FALSE,
     preExists |-> FALSE, preDir |-> FALSE]

ResolveIdle == rs = RsIdle

UserInfo(url) ==
    <<url.user, IF url.password.some THEN url.password.v ELSE <<>>>>

\* the result, and whether AuthInfo::get(path) was called; the unwrap of a
\* missing host panics after the store was loaded
with_path_store_first(url, data) ==
    LET r == read_from_file(data)
        found == IF r.ok /\ url.host # 0
                 THEN get_auth_info_by_url(r.val, url.host) ELSE Err("NotFound")
    IN  IF found.ok THEN [res |-> found, consulted |-> TRUE]
        ELSE [res |-> Ok(UserInfo(url)), consulted |-> TRUE]

with_path(url, data) ==
    IF url.user # <<>>
    THEN [res |-> Ok(UserInfo(url)), consulted |-> FALSE]
    ELSE LET r == read_from_file(data)
         IN  IF ~r.ok THEN [res |-> r, consulted |-> TRUE]
             ELSE IF url.host = 0 THEN [res |-> Err("Panic"), consulted |-> TRUE]
             ELSE [res |-> get_auth_info_by_url(r.val, url.host), consulted |-> TRUE]

\* the URLs whose credentials are resolved: with and without userinfo, with
\* and without password, with an empty password, without host
ResolveUrls ==
    {NoHostUrl}
    \cup {PlainUrl("http", h) : h \in Hosts}
    \cup {Url("http", <<117>>, pw, h, 0, NoPath) :
            pw \in {None, Some(<<>>), Some(<<112>>)}, h \in Hosts}
    \cup {Url("https", <<>>, Some(<<112>>), h, 0, NoPath) : h \in Hosts}

\* get_auth_info_by_url_with_path(url, path)
ResolveWithPath(u) ==
    LET o == with_path(u, fileData)
    IN  /\ rs' = [name |-> "with_path", url |-> u, res |-> o.res,
                  consulted |-> o.consulted,
                  preExists |-> fileExists, preDir |-> dirExists]
        /\ IF o.consulted
           THEN get_auth_save_file
           ELSE UNCHANGED <<dirExists, fileExists>>
        /\ UNCHANGED <<fileData, storeVars, pc, lg, xferVars>>

\* get_auth_info_by_url(url): embedded credentials or nothing
ResolveUrlOnly(u) ==
    /\ rs' = [name |-> "url_only", url |-> u,
              res |-> IF u.user = <<>> THEN Err("MissingCredentials")
                      ELSE Ok(UserInfo(u)),
              consulted |-> FALSE,
              preExists |-> fileExists, preDir |-> dirExists]
    /\ UNCHANGED <<fsVars, storeVars, pc, lg, xferVars>>

----------------------------------------------------------------------------
(* The binary validator and the module files *)

\* "\0asm" and version 1
WasmHeader == <<0, 97, 115, 109, 1, 0, 0, 0>>

\* the sections of the modules of this model: custom sections only (id 0, a
\* size, a name length within the size, the payload)
RECURSIVE SectionsOk(_)
SectionsOk(s) ==
    IF Len(s) = 0 THEN TRUE
    ELSE /\ Len(s) >= 2
         /\ s[1] = 0
         /\ s[2] >= 1
         /\ Len(s) >= 2 + s[2]
         /\ s[3] <= s[2] - 1
         /\ SectionsOk(SubSeq(s, 3 + s[2], Len(s)))

\* wasmparser::validate
Validate(b) ==
    /\ Len(b) >= 8
    /\ SubSeq(b, 1, 8) = WasmHeader
    /\ SectionsOk(SubSeq(b, 9, Len(b)))

\* the smallest module, and one with an empty custom section
ModuleA == WasmHeader

ModuleB == WasmHeader \o <<0, 1, 0>>

\* a truncated header, and a header followed by a broken section
Truncated == SubSeq(WasmHeader, 1, 4)

BrokenSection == WasmHeader \o <<0, 5, 0>>

ArtifactBytes == {ModuleA, ModuleB, <<>>, Truncated, BrokenSection}

\* what the path PushArgs.file may name
ArtifactFiles ==
    {[kind |-> "absent", bytes |-> <<>>], [kind |-> "dir", bytes |-> <<>>]}
    \cup {[kind |-> "file", bytes |-> b] : b \in ArtifactBytes}

----------------------------------------------------------------------------
(* parse_img_url *)

\* repository names the Reference grammar accepts
ValidRepoNames == {"repo", "org/repo"}

\* the URLs passed as image_url
ImgUrls ==
    {BadUrl,
     Url("ftp", <<>>, None, 1, 0, Path("repo", "", FALSE)),
     Url("http", <<>>, None, 1, 0, Path("repo", "", FALSE)),
     Url("http", <<>>, None, 2, 8080, Path("repo", "v1", FALSE)),
     Url("https", <<>>, None, 1, 0, Path("org/repo", "v1", FALSE)),
     Url("https", <<>>, None, 2, 0, Path("repo", "", TRUE)),
     Url("https", <<117>>, Some(<<112>>), 1, 8443, Path("org/repo", "", FALSE)),
     Url("https", <<>>, None, 1, 0, Path("", "", FALSE)),
     Url("https", <<>>, None, 1, 0, Path("Repo", "", FALSE))}

\* format!("{}:{}{}", host, port, img_url.path())
RepoUrl(host, port, path) == [host |-> host, port |-> port, path |-> path]

\* repo_url.parse::<Reference>(): the registry is "host:port"; a reference with
\* neither tag nor digest gets the tag "latest"
ParseReference(repo_url) ==
    IF repo_url.path.name \notin ValidRepoNames THEN Err("InvalidReference")
    ELSE Ok([registry |-> <<repo_url.host, repo_url.port>>,
             repository |-> repo_url.path.name,
             tag |-> IF repo_url.path.tag = "" /\ ~repo_url.path.digest
                     THEN "latest" ELSE repo_url.path.tag,
             digest |-> repo_url.path.digest])

parse_img_url(url) ==
    IF ~url.valid THEN Err("UrlParse")
    ELSE IF ~get_client(url).ok THEN get_client(url)
    ELSE IF url.host = 0 THEN Err("InvalidUrl")
    ELSE IF ~default_schema_port(url.scheme).ok THEN default_schema_port(url.scheme)
    ELSE LET repo_url == RepoUrl(url.host, default_schema_port(url.scheme).val, url.path)
             reference == ParseReference(repo_url)
         IN  IF ~reference.ok THEN reference
             ELSE Ok([client |-> get_client(url).val, reference |-> reference.val,
                      repo_url |-> repo_url])

----------------------------------------------------------------------------
(* Push: wasm_push, push_wasm_to_registry *)

PushIdleRec ==
    [pc |-> "idle", file |-> [kind |-> "absent", bytes |-> <<>>], url |-> BadUrl,
     cred |-> CredA, opened |-> FALSE, module |-> <<>>, uploaded |-> <<>>,
     res |-> Ok(<<>>)]

PushIdle == push = PushIdleRec

\* the credentials passed to push and pull
XferCreds == {CredA, CredB}

PushStart(f, u, c) ==
    /\ push.pc = "idle"
    /\ push' = [PushIdleRec EXCEPT !.pc = "local", !.file = f, !.url = u, !.cred = c]
    /\ net' = <<>>
    /\ UNCHANGED <<fsVars, storeVars, pc, lg, rs, pull, outFile>>

\* wasm_push without the call of wasmparser::validate
PushLocal_no_validate ==
    /\ push.pc = "local"
    /\ IF push.file.kind # "file"
       THEN push' = [push EXCEPT !.pc = "done", !.res = Err("InvalidInput")]
       ELSE \E readable \in BOOLEAN :
            IF ~readable
            THEN push' = [push EXCEPT !.pc = "done", !.res = Err("Io")]
            ELSE push' = [push EXCEPT !.pc = "derive", !.opened = TRUE,
                                      !.module = push.file.bytes]
    /\ UNCHANGED <<fsVars, storeVars, pc, lg, rs, pull, net, outFile>>

\* path.is_file(), File::open and read_to_end, wasmparser::validate
PushLocal ==
    /\ push.pc = "local"
    /\ IF push.file.kind # "file"
       THEN push' = [push EXCEPT !.pc = "done", !.res = Err("InvalidInput")]
       ELSE \E readable \in BOOLEAN :
            IF ~readable
            THEN push' = [push EXCEPT !.pc = "done", !.res = Err("Io")]
            ELSE IF ~Validate(push.file.bytes)
            THEN push' = [push EXCEPT !.pc = "done", !.opened = TRUE,
                                      !.module = push.file.bytes,
                                      !.res = Err("InvalidArtifact")]
            ELSE push' = [push EXCEPT !.pc = "derive", !.opened = TRUE,
                                      !.module = push.file.bytes]
    /\ UNCHANGED <<fsVars, storeVars, pc, lg, rs, pull, net, outFile>>

\* parse_img_url(&img_url)?, get_registry_auth
PushDerive ==
    /\ push.pc = "derive"
    /\ net' = Append(net, "derive")
    /\ LET r == parse_img_url(push.url)
       IN  IF ~r.ok THEN push' = [push EXCEPT !.pc = "done", !.res = r]
           ELSE push' = [push EXCEPT !.pc = "auth"]
    /\ UNCHANGED <<fsVars, storeVars, pc, lg, rs, pull, outFile>>

\* wasm_push that saves the credentials the registry accepted, as login does
PushAuth_saves_credentials ==
    /\ push.pc = "auth"
    /\ net' = Append(net, "auth")
    /\ \E accepted \in BOOLEAN :
        IF accepted
        THEN /\ push' = [push EXCEPT !.pc = "upload"]
             /\ get_auth_save_file
             /\ fileData' = write_to_file(<<R(push.url.host, push.cred)>>, fileData)
        ELSE /\ push' = [push EXCEPT !.pc = "done", !.res = Err("Auth")]
             /\ UNCHANGED fsVars
    /\ UNCHANGED <<storeVars, pc, lg, rs, pull, outFile>>

\* client.push: the registry answers the authentication
PushAuth ==
    /\ push.pc = "auth"
    /\ net' = Append(net, "auth")
    /\ \E accepted \in BOOLEAN :
        IF accepted THEN push' = [push EXCEPT !.pc = "upload"]
        ELSE push' = [push EXCEPT !.pc = "done", !.res = Err("Auth")]
    /\ UNCHANGED <<fsVars, storeVars, pc, lg, rs, pull, outFile>>

\* client.push: one layer with the module, the config, the manifest
PushUpload ==
    /\ push.pc = "upload"
    /\ net' = Append(net, "upload")
    /\ \E stored \in BOOLEAN :
        IF stored
        THEN push' = [push EXCEPT !.pc = "done", !.uploaded = push.module,
                                  !.res = Ok(<<>>)]
        ELSE push' = [push EXCEPT !.pc = "done", !.res = Err("Upload")]
    /\ UNCHANGED <<fsVars, storeVars, pc, lg, rs, pull, outFile>>

PushReturn ==
    /\ push.pc = "done"
    /\ push' = PushIdleRec
    /\ net' = <<>>
    /\ UNCHANGED <<fsVars, storeVars, pc, lg, rs, pull, outFile>>

----------------------------------------------------------------------------
(* Pull: pull (src/lib.rs), wasm_pull, pull_wasm_from_registry *)

\* the most layers an image of the registry holds
MaxLayers == 2

WasmLayer == "application/vnd.wasm.content.layer.v1+wasm"

OtherLayer == "application/vnd.oci.image.layer.v1.tar"

LayerKinds ==
    {[media |-> m, data |-> d] :
        m \in {WasmLayer, OtherLayer}, d \in {ModuleA, ModuleB, Truncated}}

RECURSIVE SeqsUpTo(_, _)
SeqsUpTo(S, n) ==
    IF n = 0 THEN {<<>>}
    ELSE LET shorter == SeqsUpTo(S, n - 1)
         IN  shorter \cup {Append(q, x) : q \in {r \in shorter : Len(r) = n - 1}, x \in S}

\* what the registry may hold under a reference
Images == SeqsUpTo(LayerKinds, MaxLayers)

\* Client::pull(reference, auth, accepted): a layer of another media type
\* fails the pull; otherwise the layers come in manifest order
ClientPull(answer, accepted) ==
    IF ~answer.ok THEN answer
    ELSE IF \E i \in 1..Len(answer.val) : answer.val[i].media \notin accepted
    THEN Err("IncompatibleLayer")
    ELSE answer

\* what the registry answers: a refusal, a failure, or an image
Answers == {Err("Auth"), Err("Registry")} \cup {Ok(img) : img \in Images}

\* pull_wasm_from_registry that names no default tag
pull_wasm_from_registry_no_default_tag(answer, reference) ==
    LET r == ClientPull(answer, {WasmLayer})
    IN  IF ~r.ok THEN r
        ELSE IF Len(r.val) > 0 THEN Ok(r.val[1].data)
        ELSE [ok |-> FALSE, err |-> "EmptyArtifact",
              val |-> <<reference.registry, reference.repository, reference.tag>>]

\* pull_wasm_from_registry: the first layer's data, or the error that names
\* registry/repository:tag
pull_wasm_from_registry(answer, reference) ==
    LET r == ClientPull(answer, {WasmLayer})
    IN  IF ~r.ok THEN r
        ELSE IF Len(r.val) > 0 THEN Ok(r.val[1].data)
        ELSE [ok |-> FALSE, err |-> "EmptyArtifact",
              val |-> <<reference.registry, reference.repository,
                        IF reference.tag = "" THEN "latest" ELSE reference.tag>>]

PullIdleRec ==
    [pc |-> "idle", top |-> FALSE, url |-> BadUrl, cred |-> CredA,
     derived |-> Err("none"), answer |-> Err("none"), data |-> <<>>,
     validated |-> FALSE,
     preOut |-> [exists |-> FALSE, data |-> <<>>], res |-> Ok(<<>>)]

PullIdle == pull = PullIdleRec

\* the destination before a pull: absent, empty, or longer than any module
OutFiles ==
    {[exists |-> FALSE, data |-> <<>>],
     [exists |-> TRUE, data |-> <<>>],
     [exists |-> TRUE, data |-> ModuleB \o <<7, 7>>]}

\* a call of pull(PullArgs) (top) or of wasm_pull itself
PullStart(top, u, c) ==
    /\ pull.pc = "idle"
    /\ pull' = [PullIdleRec EXCEPT !.pc = IF top THEN "open" ELSE "derive",
                                   !.top = top, !.url = u, !.cred = c,
                                   !.preOut = outFile]
    /\ net' = <<>>
    /\ UNCHANGED <<fsVars, storeVars, pc, lg, rs, push, outFile>>

\* pull: an existing regular file is opened for writing as it is, anything
\* else is created
PullOpen ==
    /\ pull.pc = "open"
    /\ \E opened \in BOOLEAN :
        IF opened
        THEN /\ outFile' = [outFile EXCEPT !.exists = TRUE]
             /\ pull' = [pull EXCEPT !.pc = "derive"]
        ELSE /\ outFile' = outFile
             /\ pull' = [pull EXCEPT !.pc = "done", !.res = Err("Io")]
    /\ UNCHANGED <<fsVars, storeVars, pc, lg, rs, push, net>>

\* wasm_pull: parse_img_url(img)?, get_registry_auth
PullDerive ==
    /\ pull.pc = "derive"
    /\ net' = Append(net, "derive")
    /\ LET r == parse_img_url(pull.url)
       IN  IF ~r.ok THEN pull' = [pull EXCEPT !.pc = "done", !.derived = r, !.res = r]
           ELSE pull' = [pull EXCEPT !.pc = "fetch", !.derived = r]
    /\ UNCHANGED <<fsVars, storeVars, pc, lg, rs, push, outFile>>

\* wasm_pull: pull_wasm_from_registry(..).await?
PullFetch ==
    /\ pull.pc = "fetch"
    /\ net' = Append(net, "pull")
    /\ \E answer \in Answers :
        LET r == pull_wasm_from_registry(answer, parse_img_url(pull.url).val.reference)
        IN  IF ~r.ok
            THEN pull' = [pull EXCEPT !.pc = "done", !.answer = answer, !.res = r]
            ELSE pull' = [pull EXCEPT !.pc = "validate", !.answer = answer,
                                      !.data = r.val]
    /\ UNCHANGED <<fsVars, storeVars, pc, lg, rs, push, outFile>>

\* wasm_pull that returns the content unchecked
PullValidate_unchecked ==
    /\ pull.pc = "validate"
    /\ pull' = [pull EXCEPT !.pc = IF pull.top THEN "copy" ELSE "done",
                            !.validated = TRUE, !.res = Ok(pull.data)]
    /\ UNCHANGED <<fsVars, storeVars, pc, lg, rs, push, net, outFile>>

\* wasm_pull: wasmparser::validate(&img_content)?; Ok(img_content)
PullValidate ==
    /\ pull.pc = "validate"
    /\ IF Validate(pull.data)
       THEN pull' = [pull EXCEPT !.pc = IF pull.top THEN "copy" ELSE "done",
                                 !.validated = TRUE, !.res = Ok(pull.data)]
       ELSE pull' = [pull EXCEPT !.pc = "done", !.validated = TRUE,
                                 !.res = Err("InvalidArtifact")]
    /\ UNCHANGED <<fsVars, storeVars, pc, lg, rs, push, net, outFile>>

\* pull: io::copy(&mut &data[..], &mut file), from the start of the file
PullCopy ==
    /\ pull.pc = "copy"
    /\ outFile' = [outFile EXCEPT !.data = WriteAt(outFile.data, 0, pull.data)]
    /\ pull' = [pull EXCEPT !.pc = "done"]
    /\ UNCHANGED <<fsVars, storeVars, pc, lg, rs, push, net>>

PullReturn ==
    /\ pull.pc = "done"
    /\ pull' = PullIdleRec
    /\ net' = <<>>
    /\ UNCHANGED <<fsVars, storeVars, pc, lg, rs, push, outFile>>

XferIdle ==
    /\ PushIdle
    /\ PullIdle
    /\ net = <<>>

----------------------------------------------------------------------------
(* Specifications *)

NoOutFile == outFile = [exists |-> FALSE, data |-> <<>>]

CredIdle == StoreIdle /\ LoginIdle /\ ResolveIdle

InitStore == InitFs /\ CredIdle /\ XferIdle /\ NoOutFile

NextStore ==
    \/ Get
    \/ \E h \in Hosts, c \in Creds : SetLogin(h, c)
    \/ \E h \in Hosts : RemoveLogin(h)
    \/ \E h \in Hosts : Resolve(h)

\* the store API called in any order on one AuthInfo value
SpecStore == InitStore /\ [][NextStore]_vars

\* the credential file beside a transfer or a pair of logins: absent, or holding one record
InitFsXfer ==
    \/ /\ dirExists \in BOOLEAN
       /\ fileExists = FALSE
       /\ fileData = <<>>
    \/ /\ dirExists = TRUE
       /\ fileExists = TRUE
       /\ fileData = to_writer(<<R(1, CredA)>>)

InitSave == InitFs /\ CredIdle /\ XferIdle /\ NoOutFile

NextSave ==
    \/ Get
    \/ \E h \in Hosts, c \in XferCreds : SetLogin(h, c)
    \/ Save

\* stores built by load and upsert, saved over any content of the file
SpecSave == InitSave /\ [][NextSave]_vars

InitLogin == InitFs /\ CredIdle /\ XferIdle /\ NoOutFile

LoginStep(p) ==
    \/ \E u \in LoginUrls, c \in Creds : LoginStart(p, u, c)
    \/ LoginLoad(p)
    \/ LoginProbe(p)
    \/ LoginTruncate(p)
    \/ LoginWrite(p)
    \/ LoginReturn(p)

NextLogin == LoginStep(1)

\* login calls made one after the other
SpecLogin == InitLogin /\ [][NextLogin]_vars

\* the logins of the two flows: one URL per host, one pair of credentials
RaceUrls == {PlainUrl("http", h) : h \in Hosts}

RaceCreds == {CredA}

InitRace == InitFsXfer /\ CredIdle /\ XferIdle /\ NoOutFile

RaceStep(p) ==
    \/ \E u \in RaceUrls, c \in RaceCreds : LoginStart(p, u, c)
    \/ LoginLoad(p)
    \/ LoginProbe(p)
    \/ LoginTruncate(p)
    \/ LoginWrite(p)

NextRace == \E p \in Procs : RaceStep(p)

\* two login flows, one call each, against one credential file, their steps
\* interleaved in any order
SpecRace == InitRace /\ [][NextRace]_vars

InitResolve == InitFs /\ CredIdle /\ XferIdle /\ NoOutFile

NextResolve ==
    \/ \E u \in ResolveUrls : ResolveWithPath(u)
    \/ \E u \in ResolveUrls : ResolveUrlOnly(u)

\* URL credential resolutions against a credential file
SpecResolve == InitResolve /\ [][NextResolve]_vars

InitPush == InitFsXfer /\ CredIdle /\ XferIdle /\ NoOutFile

NextPush ==
    \/ \E f \in ArtifactFiles, u \in ImgUrls, c \in XferCreds : PushStart(f, u, c)
    \/ PushLocal
    \/ PushDerive
    \/ PushAuth
    \/ PushUpload
    \/ PushReturn

\* push calls made one after the other
SpecPush == InitPush /\ [][NextPush]_vars

InitPull == InitFsXfer /\ CredIdle /\ XferIdle /\ outFile \in OutFiles

NextPull ==
    \/ \E top \in BOOLEAN, u \in ImgUrls, c \in XferCreds : PullStart(top, u, c)
    \/ PullOpen
    \/ PullDerive
    \/ PullFetch
    \/ PullValidate
    \/ PullCopy
    \/ PullReturn

\* pull calls made one after the other
SpecPull == InitPull /\ [][NextPull]_vars

InitXfer == InitFsXfer /\ CredIdle /\ XferIdle /\ outFile \in OutFiles

NextXfer ==
    \/ \E f \in ArtifactFiles, u \in ImgUrls, c \in XferCreds :
        PullIdle /\ PushStart(f, u, c)
    \/ PushLocal
    \/ PushDerive
    \/ PushAuth
    \/ PushUpload
    \/ PushReturn
    \/ \E top \in BOOLEAN, u \in ImgUrls, c \in XferCreds :
        PushIdle /\ PullStart(top, u, c)
    \/ PullOpen
    \/ PullDerive
    \/ PullFetch
    \/ PullValidate
    \/ PullCopy
    \/ PullReturn

\* push and pull calls made one after the other, in any order
SpecXfer == InitXfer /\ [][NextXfer]_vars

----------------------------------------------------------------------------
(* Claims on the store API, under SpecStore *)

NoColon(s) == \A i \in 1..Len(s) : s[i] # Colon

HasUrl(recs, url) == \E i \in 1..Len(recs) : recs[i].url = url

\* C3: in any store state, after LoginInfo::new(host, user, pass) is upserted
\* with set_login_info, get_auth_info_by_url(host) returns exactly (user, pass)
\* whenever user holds no ':'.
C3_RoundTrip ==
    (op.name = "set" /\ NoColon(op.user))
        => get_auth_info_by_url(store, op.host) = Ok(<<op.user, op.pwd>>)

\* the upsert replaced a record of the host by one whose password holds ':'
C3_Witness ==
    /\ op.name = "set"
    /\ NoColon(op.user)
    /\ ~NoColon(op.pwd)
    /\ HasUrl(prevStore, op.host)
    /\ Len(store) >= 2
    /\ get_auth_info_by_url(store, op.host) = Ok(<<op.user, op.pwd>>)

AtMostOnePerHost(recs) ==
    \A i, j \in 1..Len(recs) : recs[i].url = recs[j].url => i = j

\* C4: every store holds at most one record per host, a store produced by
\* AuthInfo::get included.
C4_AtMostOnePerHost == AtMostOnePerHost(store)

\* C5: set_login_info for a host already present replaces that host's record
\* where it stands and changes neither the length nor any other record; for an
\* absent host it appends one record and changes no existing one.
C5_UpsertFrame ==
    op.name = "set" =>
        LET idx == PositionOfUrl(prevStore, op.host)
            li == LoginInfoNew(op.host, op.user, op.pwd)
        IN  IF idx # 0
            THEN /\ Len(store) = Len(prevStore)
                 /\ store[idx] = li
                 /\ \A j \in 1..Len(store) : j # idx => store[j] = prevStore[j]
            ELSE /\ Len(store) = Len(prevStore) + 1
                 /\ store[Len(store)] = li
                 /\ \A j \in 1..Len(prevStore) : store[j] = prevStore[j]

\* an upsert changed the first of two records and left the second alone
C5_Witness ==
    /\ op.name = "set"
    /\ Len(prevStore) = 2
    /\ PositionOfUrl(prevStore, op.host) = 1
    /\ store[1] # prevStore[1]
    /\ store[2] = prevStore[2]
    /\ Len(store) = 2

\* C6: remove_login_info(host) fails with NotFound and leaves the store as it
\* was when no record has the host; otherwise the store shrinks by exactly one,
\* resolving the host then fails, and every other host resolves as before.
C6_Remove ==
    op.name = "remove" =>
        IF ~HasUrl(prevStore, op.host)
        THEN /\ ~op.res.ok
             /\ op.res.err = "NotFound"
             /\ store = prevStore
        ELSE /\ op.res.ok
             /\ Len(store) = Len(prevStore) - 1
             /\ ~get_auth_info_by_url(store, op.host).ok
             /\ \A h \in Hosts \ {op.host} :
                    get_auth_info_by_url(store, h) = get_auth_info_by_url(prevStore, h)

\* the tokens of the file that are records, in file order
RECURSIVE RecordsIn(_)
RecordsIn(data) ==
    IF Len(data) = 0 THEN <<>>
    ELSE (IF data[1].t = "rec" THEN <<RecOf(data[1])>> ELSE <<>>)
         \o RecordsIn(Tail(data))

\* the file, whitespace aside, is the array of its own records
WellFormedFile(data) == SelectSeq(data, NotWs) = to_writer(RecordsIn(data))

\* C10: AuthInfo::get returns a store with zero records, not an error, when
\* the file is missing or has zero length; it fails with a deserialization
\* error when the file is non-empty and not a well-formed array of records;
\* otherwise it returns the records of the file in file order.
C10_Load ==
    op.name = "get" =>
        IF fileData = <<>>
        THEN op.res.ok /\ store = <<>>
        ELSE IF ~WellFormedFile(fileData)
        THEN ~op.res.ok /\ op.res.err = "Deserialize" /\ store = prevStore
        ELSE op.res.ok /\ store = RecordsIn(fileData) /\ op.res.val = store

\* a missing file was loaded into a caller that held records before
C10_Witness ==
    /\ op.name = "get"
    /\ ~op.existed
    /\ op.res.ok
    /\ prevStore # <<>>
    /\ store = <<>>

----------------------------------------------------------------------------
(* Claims on login, under SpecLogin *)

\* C1: a login that fails (URL parsing, store loading, client, probe) leaves
\* the content of the credential file as it was when the call began; during a
\* call the content differs from that only once the probe has succeeded.
C1_FailedLoginKeepsFile ==
    \A p \in Procs :
        /\ (pc[p] = "done" /\ ~lg[p].res.ok) => fileData = lg[p].snapData
        /\ (pc[p] # "idle" /\ fileData # lg[p].snapData) => lg[p].probe = "ok"

\* the registry rejected the probe of a login against a file that holds records
C1_Witness ==
    /\ pc[1] = "done"
    /\ lg[1].probe = "rejected"
    /\ lg[1].res = Err("Auth")
    /\ Len(RecordsIn(fileData)) >= 1
    /\ fileData = lg[1].snapData

----------------------------------------------------------------------------
(* Claims on URL credential resolution, under SpecResolve *)

\* what AuthInfo::get and get_auth_info_by_url give for a host, read off the
\* file content
StoreResolve(data, host) ==
    IF data = <<>> THEN Err("NotFound")
    ELSE IF ~WellFormedFile(data) THEN Err("Deserialize")
    ELSE get_auth_info_by_url(RecordsIn(data), host)

\* C7: with a non-empty embedded username the result is (username, password
\* or "") and the credential file is neither loaded nor created, whatever it
\* holds for the host; without one the result is the store's resolution of the
\* URL's host.
C7_UrlFirst ==
    rs.name = "with_path" =>
        IF rs.url.user # <<>>
        THEN /\ rs.res = Ok(<<rs.url.user,
                              IF rs.url.password.some THEN rs.url.password.v ELSE <<>>>>)
             /\ ~rs.consulted
             /\ fileExists = rs.preExists
             /\ dirExists = rs.preDir
        ELSE /\ rs.consulted
             /\ rs.url.host # 0 => rs.res = StoreResolve(fileData, rs.url.host)

\* a URL with a username and no password was resolved although the store
\* holds other credentials for its host
C7_Witness ==
    /\ rs.name = "with_path"
    /\ rs.url.user # <<>>
    /\ ~rs.url.password.some
    /\ StoreResolve(fileData, rs.url.host).ok
    /\ StoreResolve(fileData, rs.url.host) # rs.res
    /\ rs.res = Ok(<<rs.url.user, <<>>>>)

----------------------------------------------------------------------------
(* Claims on push, under SpecPush *)

\* C2: push makes no registry-facing step (derivation, authentication,
\* upload) unless the path names a regular file whose bytes validate; a path
\* that is no regular file fails InvalidInput and bytes that do not validate
\* fail InvalidArtifact, both with no such step made.
C2_PushLocalFirst ==
    /\ (push.pc # "idle" /\ net # <<>>) =>
            (push.file.kind = "file" /\ Validate(push.file.bytes))
    /\ (push.pc = "done" /\ push.file.kind # "file") =>
            (push.res = Err("InvalidInput") /\ net = <<>>)
    /\ (push.pc = "done" /\ push.opened /\ ~Validate(push.file.bytes)) =>
            (push.res = Err("InvalidArtifact") /\ net = <<>>)

\* a push of a file with a broken section, to a URL that derives, was refused
C2_Witness ==
    /\ push.pc = "done"
    /\ push.file = [kind |-> "file", bytes |-> BrokenSection]
    /\ parse_img_url(push.url).ok
    /\ push.res = Err("InvalidArtifact")
    /\ net = <<>>

----------------------------------------------------------------------------
(* Claims on pull, under SpecPull *)

\* the registry answered with wasm layers only
Fetched == pull.answer.ok /\ ClientPull(pull.answer, {WasmLayer}).ok

\* C8: wasm_pull returns bytes only if they are the data of the first layer
\* the registry returned for the wasm layer media type and they validate; when
\* the downloaded bytes do not validate it fails InvalidArtifact with no bytes.
C8_PullReturnsValidFirstLayer ==
    /\ (pull.pc \in {"copy", "done"} /\ pull.res.ok) =>
            /\ Fetched
            /\ Len(pull.answer.val) >= 1
            /\ pull.answer.val[1].media = WasmLayer
            /\ pull.res.val = pull.answer.val[1].data
            /\ Validate(pull.res.val)
    /\ (pull.pc = "done" /\ Fetched /\ Len(pull.answer.val) >= 1
            /\ ~Validate(pull.answer.val[1].data)) =>
            pull.res = Err("InvalidArtifact")

\* wasm_pull returned the first of two different layers
C8_Witness ==
    /\ pull.pc = "done"
    /\ ~pull.top
    /\ pull.res.ok
    /\ Len(pull.answer.val) = 2
    /\ pull.answer.val[2].data # pull.answer.val[1].data
    /\ pull.res.val = pull.answer.val[1].data

\* C9: when the registry's answer holds zero layers, pull fails EmptyArtifact
\* with the validator not called, and the error names the host, the repository
\* and the tag, "latest" when the URL path gives no tag.
C9_EmptyArtifact ==
    (pull.pc = "done" /\ pull.answer.ok /\ pull.answer.val = <<>>) =>
        /\ ~pull.res.ok
        /\ pull.res.err = "EmptyArtifact"
        /\ ~pull.validated
        /\ pull.res.val[1][1] = pull.url.host
        /\ pull.res.val[2] = pull.url.path.name
        /\ pull.res.val[3] =
              IF pull.url.path.tag # "" THEN pull.url.path.tag ELSE "latest"

\* an image without layers was pulled by digest, with no tag in the URL
C9_Witness ==
    /\ pull.pc = "done"
    /\ pull.answer = Ok(<<>>)
    /\ pull.url.path.digest
    /\ pull.url.path.tag = ""
    /\ pull.res.err = "EmptyArtifact"
    /\ pull.res.val[3] = "latest"

----------------------------------------------------------------------------
(* Further claims on the store API, under SpecStore *)

\* the bytes hold the separator at i and nowhere before
FirstColonAt(bytes, i) ==
    /\ i \in 1..Len(bytes)
    /\ bytes[i] = Colon
    /\ \A j \in 1..(i - 1) : bytes[j] # Colon

\* C11: get_auth_info_by_url fails NotFound exactly when no record has the
\* host; when the record it matches has an auth that is no valid base64 or
\* decodes to bytes without ':', it fails with the other error, Corrupt; on a
\* well-formed record the user is what stands before the first ':' and the
\* password all that follows it.
C11_ResolveOutcomes ==
    op.name = "resolve" =>
        /\ (~op.res.ok /\ op.res.err = "NotFound") <=> ~HasUrl(store, op.host)
        /\ HasUrl(store, op.host) =>
            LET dec == B64Decode(store[PositionOfUrl(store, op.host)].auth)
            IN  IF ~dec.ok \/ NoColon(dec.bytes)
                THEN ~op.res.ok /\ op.res.err = "Corrupt"
                ELSE /\ op.res.ok
                     /\ \E i \in 1..Len(dec.bytes) :
                            /\ FirstColonAt(dec.bytes, i)
                            /\ op.res.val[1] = FromUtf8Lossy(SubSeq(dec.bytes, 1, i - 1))
                            /\ op.res.val[2] =
                                  FromUtf8Lossy(SubSeq(dec.bytes, i + 1, Len(dec.bytes)))

\* a record without separator was resolved, beside a host that has no record
C11_Witness ==
    /\ op.name = "resolve"
    /\ HasUrl(store, op.host)
    /\ op.res = Err("Corrupt")
    /\ B64Decode(store[PositionOfUrl(store, op.host)].auth).ok
    /\ \E h \in Hosts : get_auth_info_by_url(store, h) = Err("NotFound")

----------------------------------------------------------------------------
(* Further claims on login, under SpecLogin *)

CountUrl(recs, url) == Cardinality({i \in 1..Len(recs) : recs[i].url = url})

\* what a successful login must have left in the file, given the file content
\* the call found
LoginPersisted(p) ==
    LET loaded == read_from_file(fileData)
        before == RecordsIn(lg[p].snapData)
        host == lg[p].url.host
    IN  /\ loaded.ok
        /\ get_auth_info_by_url(loaded.val, host) = Ok(<<lg[p].user, lg[p].token>>)
        /\ CountUrl(loaded.val, host) = 1
        /\ \A i \in 1..Len(before) :
                before[i].url # host =>
                    \E j \in 1..Len(loaded.val) : loaded.val[j] = before[i]

\* C12: after a login whose probe succeeded, loading the file and resolving
\* the URL's host returns the credentials of that login, the file holds
\* exactly one record of that host, and every record of another host that was
\* in the file before is still there, unchanged.
C12_LoginPersists ==
    \A p \in Procs :
        (pc[p] = "done" /\ lg[p].res.ok /\ lg[p].probe = "ok") => LoginPersisted(p)

----------------------------------------------------------------------------
(* Claims on the derived reference, under SpecPull *)

\* wasm_pull has derived client and reference from its URL
Derived == pull.derived # PullIdleRec.derived

\* C13: the derived repository string is host:port/path where the port is the
\* URL's own port when the URL gives one and the standard port of the scheme
\* (80 for http, 443 for https) otherwise; a URL of any other scheme fails and
\* yields no client and no reference.
C13_DeriveReference ==
    Derived =>
        LET u == pull.url
        IN  /\ (u.valid /\ u.scheme \notin {"http", "https"}) => ~pull.derived.ok
            /\ pull.derived.ok =>
                /\ u.scheme \in {"http", "https"}
                /\ pull.derived.val.repo_url =
                       RepoUrl(u.host,
                               IF u.port # 0 THEN u.port
                               ELSE IF u.scheme = "http" THEN 80 ELSE 443,
                               u.path)

----------------------------------------------------------------------------
(* Claims on saving the store, under SpecSave *)

\* C14: after a save of the store over any prior content of the file, a load
\* succeeds and returns exactly the records of the store in their order, and
\* the file holds the serialization of the store and nothing of what it held
\* before.
C14_SaveLoad ==
    op.name = "save" =>
        /\ read_from_file(fileData) = Ok(store)
        /\ fileData = to_writer(store)
        /\ fileExists

\* a store of one record saved over a longer content
C14_Witness ==
    /\ op.name = "save"
    /\ Len(store) = 1
    /\ Len(op.preData) > Len(to_writer(store))
    /\ read_from_file(fileData) = Ok(store)

----------------------------------------------------------------------------
(* Claims on two login flows against one file, under SpecRace *)

\* the flow has returned from a login whose probe was accepted
LoggedIn(p) == pc[p] = "done" /\ lg[p].probe = "ok" /\ lg[p].res.ok

\* the file loads and holds the record the flow saved
HoldsRecordOf(p) ==
    LET loaded == read_from_file(fileData)
    IN  /\ loaded.ok
        /\ \E i \in 1..Len(loaded.val) : loaded.val[i] = lg[p].login_info

\* both flows logged in, for two distinct hosts
BothLoggedIn ==
    /\ \A p \in Procs : LoggedIn(p)
    /\ lg[1].url.host # lg[2].url.host

\* C15: after two successful logins for two distinct hosts the file can lack
\* the record of one of them, and it does so only when the two flows
\* overlapped: when the two logins ran one after the other the file holds both
\* records.
C15_LostUpdateOnlyWhenInterleaved ==
    (BothLoggedIn /\ \E p \in Procs : ~HoldsRecordOf(p)) =>
        \A p \in Procs : lg[p].overlap

\* the lost update: the file loads, holds the record of one host and not the
\* record of the other
C15_Witness ==
    /\ BothLoggedIn
    /\ read_from_file(fileData).ok
    /\ \E p \in Procs : ~HoldsRecordOf(p)
    /\ \E p \in Procs : HoldsRecordOf(p)

----------------------------------------------------------------------------
(* Claims on push and pull beside the credential file, under SpecXfer *)

\* C16: no step of a push or of a pull, successful or failed, creates or
\* changes the credential file or its directory: the credential store on disk
\* after the call is what it was before, and the credentials passed to the
\* call are not saved.
C16_TransfersKeepCredentialFile == [][UNCHANGED fsVars]_vars

\* a push that succeeded, after a pull that wrote a module to its destination,
\* with the credential file and its directory still absent
C16_Witness ==
    /\ push.pc = "done"
    /\ push.res.ok
    /\ push.uploaded # <<>>
    /\ Validate(outFile.data)
    /\ ~fileExists
    /\ ~dirExists

----------------------------------------------------------------------------
(* Claims on what a failed login creates, under SpecLogin *)

\* C17: a login whose probe is rejected, called when the credential file did
\* not exist, creates neither the file nor its parent directory.
C17_FailedLoginCreatesNothing ==
    \A p \in Procs :
        (pc[p] = "done" /\ lg[p].probe = "rejected" /\ ~lg[p].snapExists) =>
            /\ ~fileExists
            /\ dirExists = lg[p].snapDir

----------------------------------------------------------------------------
(* Claims on the destination file of pull, under SpecPull *)

\* C18: after a successful top-level pull the destination file holds exactly
\* the validated bytes wasm_pull returned, whatever it held before: absent,
\* empty, or a content longer than the pulled bytes.
C18_DestinationHoldsPulledBytes ==
    (pull.pc = "done" /\ pull.top /\ pull.res.ok) =>
        /\ outFile.exists
        /\ outFile.data = pull.res.val

\* C19: a top-level pull that fails neither creates nor modifies the
\* destination file.
C19_FailedPullKeepsDestination ==
    (pull.pc = "done" /\ pull.top /\ ~pull.res.ok) => outFile = pull.preOut

====
